---- MODULE Spec2Model ----
(***************************************************************************)
(* A model of buffer.go of ajson: the byte scanner (buffer), the compiler  *)
(* of a formula into Reverse Polish notation (buffer.rpn) and the operator *)
(* table that evaluates the compiled tokens.                               *)
(*                                                                         *)
(* A byte is a one-character string, a Go string or []byte is a sequence   *)
(* of bytes.  Go indexes from 0: data[i] of the source is data[i + 1]      *)
(* here and the slice data[a:b] is SubSeq(data, a + 1, b).                 *)
(***************************************************************************)
EXTENDS Integers, Sequences, FiniteSets, TLC

VARIABLES
    data,       \* buffer.data: the bytes of the formula
    index,      \* buffer.index: the cursor
    result,     \* rpn: the postfix sequence built so far
    stack,      \* rpn: the operator stack, its top last
    variable,   \* rpn: an operand was just consumed
    err,        \* the error of the call
    pc,         \* the position inside the call
    left,       \* operation: the left operand node
    right,      \* operation: the right operand node
    operator,   \* the symbol of the operation called
    node,       \* operation: the node returned
    coerced,    \* the operands handed to boolean(), in the order of the calls
    previous    \* what rpn returned for the formula as written with spaces

vars ==
    <<data, index, result, stack, variable, err, pc,
      left, right, operator, node, coerced, previous>>

\* the state of an evaluation
evalVars == <<left, right, operator, node, coerced>>

(***************************************************************************)
(* Bytes                                                                   *)
(***************************************************************************)
quotes       == "\""
quote        == "'"
backslash    == "\\"
skipS        == " "
skipN        == "\n"
skipR        == "\r"
skipT        == "\t"
bracketL     == "["
bracketR     == "]"
bracesL      == "{"
bracesR      == "}"
parenthesesL == "("
parenthesesR == ")"
dollar       == "$"
at           == "@"
dot          == "."
asterisk     == "*"
plus         == "+"
minus        == "-"
division     == "/"
exclamation  == "!"
caret        == "^"
signL        == "<"
signG        == ">"
signE        == "="
ampersand    == "&"
pipe         == "|"
question     == "?"

\* The byte read when a slice runs one past len(data) into the spare
\* capacity of the array.
NUL == "\\0"

\* The ASCII code of every byte the model uses.
Ord ==
    (NUL :> 0) @@ ("\t" :> 9) @@ ("\n" :> 10) @@ ("\r" :> 13) @@
    (" " :> 32) @@ ("!" :> 33) @@ ("\"" :> 34) @@ ("$" :> 36) @@ ("%" :> 37) @@
    ("&" :> 38) @@ ("'" :> 39) @@ ("(" :> 40) @@ (")" :> 41) @@ ("*" :> 42) @@
    ("+" :> 43) @@ ("," :> 44) @@ ("-" :> 45) @@ ("." :> 46) @@ ("/" :> 47) @@
    ("0" :> 48) @@ ("1" :> 49) @@ ("2" :> 50) @@ ("3" :> 51) @@ ("4" :> 52) @@
    ("5" :> 53) @@ ("6" :> 54) @@ ("7" :> 55) @@ ("8" :> 56) @@ ("9" :> 57) @@
    ("<" :> 60) @@ ("=" :> 61) @@ (">" :> 62) @@ ("?" :> 63) @@ ("@" :> 64) @@
    ("A" :> 65) @@ ("E" :> 69) @@ ("I" :> 73) @@ ("P" :> 80) @@ ("Z" :> 90) @@
    ("[" :> 91) @@ ("\\" :> 92) @@ ("]" :> 93) @@ ("^" :> 94) @@ ("_" :> 95) @@
    ("a" :> 97) @@ ("b" :> 98) @@ ("c" :> 99) @@ ("e" :> 101) @@ ("f" :> 102) @@
    ("g" :> 103) @@ ("h" :> 104) @@ ("i" :> 105) @@ ("l" :> 108) @@
    ("n" :> 110) @@ ("o" :> 111) @@ ("p" :> 112) @@ ("r" :> 114) @@
    ("s" :> 115) @@ ("t" :> 116) @@ ("u" :> 117) @@ ("x" :> 120) @@
    ("y" :> 121) @@ ("z" :> 122) @@ ("|" :> 124)

Bytes == DOMAIN Ord

\* lo <= c && c <= hi on bytes
Between(c, lo, hi) == Ord[lo] <= Ord[c] /\ Ord[c] <= Ord[hi]

\* strings.ToLower on one byte
ToLowerByte(c) ==
    IF Between(c, "A", "Z") THEN CHOOSE d \in Bytes : Ord[d] = Ord[c] + 32 ELSE c

ToLower(s) == [i \in 1..Len(s) |-> ToLowerByte(s[i])]

\* find & m and find | m on the flags of numeric()
RECURSIVE BitAnd(_, _)
BitAnd(a, b) ==
    IF a = 0 \/ b = 0 THEN 0
    ELSE (a % 2) * (b % 2) + 2 * BitAnd(a \div 2, b \div 2)

RECURSIVE BitOr(_, _)
BitOr(a, b) ==
    IF a = 0 THEN b
    ELSE IF b = 0 THEN a
    ELSE (IF a % 2 = 1 \/ b % 2 = 1 THEN 1 ELSE 0) + 2 * BitOr(a \div 2, b \div 2)

(***************************************************************************)
(* Errors.  io.EOF is the sentinel the scanner returns at the end of the   *)
(* buffer; errorEOF and errorSymbol are the package's errors for an        *)
(* unexpected end and an unexpected byte; the others are the errorRequest  *)
(* messages of rpn.  A slice past the capacity of data is a run-time panic.*)
(***************************************************************************)
Nil             == "nil"
EOF             == "io.EOF"
ErrorEOF        == "errorEOF"
ErrorSymbol     == "errorSymbol"
NoLeftParen     == "formula has no left parentheses"
NotAFunction    == "is not a function"
NotAConstant    == "is not a constant"
NotAnOperation  == "is not an operation or function"
Panic           == "panic: slice bounds out of range"

RequestErrors == {NoLeftParen, NotAFunction, NotAConstant, NotAnOperation}

(***************************************************************************)
(* The registries                                                          *)
(***************************************************************************)
priority(op) ==
    CASE op = <<"*", "*">> -> 6
      [] op = <<"*">>      -> 5
      [] op = <<"/">>      -> 5
      [] op = <<"%">>      -> 5
      [] op = <<"<", "<">> -> 5
      [] op = <<">", ">">> -> 5
      [] op = <<"&">>      -> 5
      [] op = <<"&", "^">> -> 5
      [] op = <<"+">>      -> 4
      [] op = <<"-">>      -> 4
      [] op = <<"|">>      -> 4
      [] op = <<"^">>      -> 4
      [] op = <<"=", "=">> -> 3
      [] op = <<"!", "=">> -> 3
      [] op = <<"<">>      -> 3
      [] op = <<"<", "=">> -> 3
      [] op = <<">">>      -> 3
      [] op = <<">", "=">> -> 3
      [] op = <<"&", "&">> -> 2
      [] op = <<"|", "|">> -> 1
      [] OTHER             -> 0

rightOp(op) == op = <<"*", "*">>

functions ==
    { <<"s", "i", "n">>, <<"c", "o", "s">>, <<"l", "e", "n", "g", "t", "h">>,
      <<"f", "a", "c", "t", "o", "r", "i", "a", "l">> }

constants ==
    { <<"p", "i">>, <<"e">>, <<"t", "r", "u", "e">>,
      <<"f", "a", "l", "s", "e">>, <<"n", "u", "l", "l">> }

(***************************************************************************)
(* The scanner.  Each operator is the method of the same name, applied to  *)
(* the cursor i, and returns the cursor it leaves with the error.          *)
(***************************************************************************)
length == Len(data)

At(i) == data[i + 1]

Ret(i, e) == [index |-> i, err |-> e]

\* data[a:b]
Slice(a, b) == SubSeq(data, a + 1, b)

\* step() without the b.index++
stepInPlace(i) == IF i + 1 < length THEN Ret(i, Nil) ELSE Ret(i, EOF)

step(i) == IF i + 1 < length THEN Ret(i + 1, Nil) ELSE Ret(i, EOF)

IsSkip(c) == c = skipS \/ c = skipR \/ c = skipN \/ c = skipT

RECURSIVE first(_)
first(i) ==
    IF i < length
    THEN IF ~IsSkip(At(i)) THEN Ret(i, Nil) ELSE first(i + 1)
    ELSE Ret(i, EOF)

RECURSIVE backslashFrom(_, _)
backslashFrom(i, res) ==
    IF i >= 0 /\ At(i) = backslash THEN backslashFrom(i - 1, ~res) ELSE res

isEscaped(i) == backslashFrom(i - 1, FALSE)

RECURSIVE skip(_, _)
skip(i, s) ==
    IF i < length
    THEN IF At(i) = s /\ ~isEscaped(i) THEN Ret(i, Nil) ELSE skip(i + 1, s)
    ELSE Ret(i, EOF)

\* numeric(): the loop from cursor i with the flags find
RECURSIVE numericLoop(_, _)
numericLoop(i, find) ==
    IF i < length
    THEN LET c == At(i) IN
         CASE Between(c, "0", "9") ->
                numericLoop(i + 1, BitOr(find, 4))
           [] c = "." ->
                IF BitAnd(find, 2) = 0 /\ BitAnd(find, 8) = 0
                THEN numericLoop(i + 1, BitAnd(find, 2))
                ELSE Ret(i, ErrorSymbol)
           [] c = "+" \/ c = "-" ->
                IF find = 0 \/ find = 8
                THEN numericLoop(i + 1, BitOr(find, 1))
                ELSE Ret(i, ErrorSymbol)
           [] c = "e" \/ c = "E" ->
                IF BitAnd(find, 8) = 0 /\ BitAnd(find, 4) # 0
                THEN numericLoop(i + 1, 8)
                ELSE Ret(i, ErrorSymbol)
           [] OTHER ->
                IF BitAnd(find, 4) # 0 THEN Ret(i, Nil) ELSE Ret(i, ErrorSymbol)
    ELSE IF BitAnd(find, 4) # 0 THEN Ret(i, EOF) ELSE Ret(i, ErrorEOF)

numeric(i) == numericLoop(i, 0)

\* string(search)
scanString(i, search) ==
    LET s == step(i) IN
    IF s.err # Nil THEN Ret(i, ErrorEOF)
    ELSE LET k == skip(s.index, search) IN
         IF k.err # Nil THEN Ret(k.index, ErrorEOF) ELSE Ret(k.index, Nil)

IsTokenName(c) ==
    \/ c = dot \/ c = at \/ c = dollar \/ c = question \/ c = asterisk
    \/ Between(c, "A", "z")
    \/ Between(c, "0", "9")

\* token(): the loop from cursor i with the bracket stack stk and the flag find
RECURSIVE tokenLoop(_, _, _)
tokenLoop(i, stk, find) ==
    LET finish(j) ==
            IF Len(stk) # 0 THEN Ret(j, ErrorEOF)
            ELSE IF j >= length THEN Ret(j, EOF)
            ELSE Ret(j, Nil)
    IN
    IF i < length
    THEN LET c == At(i) IN
         CASE c = quote ->
                LET s == step(i) IN
                IF s.err # Nil THEN Ret(i, ErrorEOF)
                ELSE \* skip returns nil or io.EOF: continue, and the loop adds one
                     tokenLoop(skip(s.index, quote).index + 1, stk, TRUE)
           [] c = bracketL \/ c = parenthesesL ->
                tokenLoop(i + 1, Append(stk, c), TRUE)
           [] c = bracketR ->
                IF Len(stk) = 0 \/ stk[Len(stk)] # bracketL
                THEN Ret(i, ErrorSymbol)
                ELSE tokenLoop(i + 1, SubSeq(stk, 1, Len(stk) - 1), TRUE)
           [] c = parenthesesR ->
                IF Len(stk) = 0 \/ stk[Len(stk)] # parenthesesL
                THEN Ret(i, ErrorSymbol)
                ELSE tokenLoop(i + 1, SubSeq(stk, 1, Len(stk) - 1), TRUE)
           [] OTHER ->
                IF IsTokenName(c) THEN tokenLoop(i + 1, stk, TRUE)
                ELSE IF Len(stk) # 0 THEN tokenLoop(i + 1, stk, TRUE)
                ELSE IF (c = minus \/ c = plus) /\ ~find
                THEN LET n == numeric(i) IN
                     IF n.err = Nil \/ n.err = EOF
                     THEN \* index--, continue, and the loop adds one
                          tokenLoop(n.index, stk, TRUE)
                     ELSE finish(i)
                ELSE finish(i)
    ELSE finish(i)

token(i) == tokenLoop(i, <<>>, FALSE)

(***************************************************************************)
(* rpn(): the builder of the Reverse Polish notation.  One action is one   *)
(* turn of its main loop (first(), one case of the switch, step()) or one  *)
(* turn of the loop that empties the stack.                                *)
(***************************************************************************)
Top(stk) == stk[Len(stk)]

Pop(stk) == SubSeq(stk, 1, Len(stk) - 1)

IsOperation(c) ==
    \/ c = asterisk \/ c = division \/ c = minus \/ c = plus \/ c = caret
    \/ c = ampersand \/ c = pipe \/ c = signL \/ c = signG \/ c = signE
    \/ c = exclamation

IsDigit(c) == Between(c, "0", "9")

\* the test of lines 597-606: the entry temp on top of the stack leaves it
\* ahead of the incoming operator current
found(temp, current) ==
    IF Between(temp[1], "A", "z") THEN TRUE
    ELSE IF priority(temp) # 0
    THEN \/ priority(temp) > priority(current)
         \/ priority(temp) = priority(current) /\ ~rightOp(temp)
    ELSE FALSE

\* the loop of lines 595-614
RECURSIVE popOperators(_, _, _)
popOperators(stk, out, current) ==
    IF Len(stk) > 0 /\ found(Top(stk), current)
    THEN popOperators(Pop(stk), Append(out, Top(stk)), current)
    ELSE [stack |-> stk, result |-> out]

\* popToParenthesis with the ( emitted like the operators above it
RECURSIVE popToParenthesisEmitted(_, _)
popToParenthesisEmitted(stk, out) ==
    IF Len(stk) > 0
    THEN IF Top(stk) = <<parenthesesL>>
         THEN [stack |-> Pop(stk), result |-> Append(out, Top(stk)), found |-> TRUE]
         ELSE popToParenthesisEmitted(Pop(stk), Append(out, Top(stk)))
    ELSE [stack |-> stk, result |-> out, found |-> FALSE]

\* the loop of lines 668-676
RECURSIVE popToParenthesis(_, _)
popToParenthesis(stk, out) ==
    IF Len(stk) > 0
    THEN IF Top(stk) = <<parenthesesL>>
         THEN [stack |-> Pop(stk), result |-> out, found |-> TRUE]
         ELSE popToParenthesis(Pop(stk), Append(out, Top(stk)))
    ELSE [stack |-> stk, result |-> out, found |-> FALSE]

\* the loop of lines 683-694
RECURSIVE identifier(_)
identifier(i) ==
    IF i < length
    THEN LET c == At(i) IN
         IF c = parenthesesL THEN [index |-> i, variable |-> FALSE]
         ELSE IF (~Between(c, "A", "z")) /\ ~IsDigit(c) /\ c # "_"
         THEN [index |-> i, variable |-> TRUE]
         ELSE identifier(i + 1)
    ELSE [index |-> i, variable |-> TRUE]

\* return result, e: the tokens emitted so far are returned with the error
FailPartial(i, e) ==
    /\ pc' = "done"
    /\ err' = e
    /\ index' = i
    /\ UNCHANGED <<data, result, stack, variable>>
    /\ UNCHANGED <<evalVars, previous>>

\* return nil, e
Fail(i, e) ==
    /\ pc' = "done"
    /\ err' = e
    /\ result' = <<>>
    /\ index' = i
    /\ UNCHANGED <<data, stack, variable>>
    /\ UNCHANGED <<evalVars, previous>>

\* the end of a turn: err = b.step(), break on an error
Continue(i) ==
    LET s == step(i) IN
    /\ index' = s.index
    /\ pc' = IF s.err = Nil THEN "loop" ELSE "drain"
    /\ err' = Nil
    /\ UNCHANGED data
    /\ UNCHANGED <<evalVars, previous>>

Reading == pc = "loop" /\ first(index).err = Nil

\* the cursor and the byte first() returns
cur == first(index).index

c0 == At(cur)

LoopEnd ==
    /\ pc = "loop"
    /\ first(index).err # Nil
    /\ pc' = "drain"
    /\ index' = first(index).index
    /\ err' = Nil
    /\ UNCHANGED <<data, result, stack, variable>>
    /\ UNCHANGED <<evalVars, previous>>

ScanOperation ==
    /\ Reading
    /\ IsOperation(c0)
    /\ variable
    /\ LET n == step(cur)
           temp == IF n.err = Nil THEN <<c0, At(n.index)>> ELSE <<c0>>
           two == n.err = Nil /\ priority(temp) # 0
           current == IF two THEN temp ELSE <<c0>>
           p == popOperators(stack, result, current)
       IN /\ variable' = FALSE
          /\ result' = p.result
          /\ stack' = Append(p.stack, current)
          /\ Continue(IF two THEN n.index ELSE cur)

OperationSymbol ==
    /\ Reading
    /\ IsOperation(c0)
    /\ ~variable
    /\ c0 # minus /\ c0 # plus
    /\ Fail(cur, ErrorSymbol)

ScanNumber ==
    /\ Reading
    /\ \/ IsOperation(c0) /\ ~variable /\ (c0 = minus \/ c0 = plus)
       \/ IsDigit(c0)
       \/ c0 = dot
    /\ LET n == numeric(cur) IN
       IF n.err # Nil /\ n.err # EOF
       THEN Fail(n.index, n.err)
       ELSE /\ variable' = TRUE
            /\ result' = Append(result, Slice(cur, n.index))
            /\ Continue(IF n.err # Nil THEN n.index ELSE n.index - 1)
            /\ UNCHANGED stack

ScanString ==
    /\ Reading
    /\ c0 = quote
    /\ LET s == scanString(cur, quote) IN
       IF s.err # Nil
       THEN Fail(s.index, ErrorEOF)
       ELSE /\ variable' = TRUE
            /\ result' = Append(result, Slice(cur, s.index + 1))
            /\ Continue(s.index)
            /\ UNCHANGED stack

\* data[start:b.index] with b.index = len(data) + 1 is a slice past the
\* length: it panics when the array has no spare capacity and reads the byte
\* after the data when it has.
ScanVariable ==
    /\ Reading
    /\ c0 = dollar \/ c0 = at
    /\ LET t == token(cur) IN
       IF t.err # Nil /\ t.err # EOF
       THEN Fail(t.index, t.err)
       ELSE \/ /\ t.index > length
               /\ pc' = "done"
               /\ err' = Panic
               /\ result' = <<>>
               /\ index' = t.index
               /\ UNCHANGED <<data, stack, variable>>
               /\ UNCHANGED <<evalVars, previous>>
            \/ /\ variable' = TRUE
               /\ result' = Append(result,
                      IF t.index > length
                      THEN Append(Slice(cur, length), NUL)
                      ELSE Slice(cur, t.index))
               /\ Continue(IF t.err # Nil THEN t.index ELSE t.index - 1)
               /\ UNCHANGED stack

ParenthesesL ==
    /\ Reading
    /\ c0 = parenthesesL
    /\ variable' = FALSE
    /\ stack' = Append(stack, <<c0>>)
    /\ Continue(cur)
    /\ UNCHANGED result

ParenthesesR ==
    /\ Reading
    /\ c0 = parenthesesR
    /\ LET p == popToParenthesis(stack, result) IN
       IF ~p.found
       THEN Fail(cur, NoLeftParen)
       ELSE /\ variable' = TRUE
            /\ result' = p.result
            /\ stack' = p.stack
            /\ Continue(cur)

Identifier ==
    /\ Reading
    /\ ~IsOperation(c0) /\ ~IsDigit(c0) /\ c0 # dot /\ c0 # quote
    /\ c0 # dollar /\ c0 # at /\ c0 # parenthesesL /\ c0 # parenthesesR
    /\ LET k == identifier(cur)
           current == ToLower(Slice(cur, k.index))
       IN IF ~k.variable
          THEN IF current \notin functions
               THEN Fail(k.index - 1, NotAFunction)
               ELSE /\ variable' = FALSE
                    /\ stack' = Append(stack, current)
                    /\ Continue(k.index - 1)
                    /\ UNCHANGED result
          ELSE IF current \notin constants
               THEN Fail(k.index - 1, NotAConstant)
               ELSE /\ variable' = TRUE
                    /\ result' = Append(result, current)
                    /\ Continue(k.index - 1)
                    /\ UNCHANGED stack

\* Drain without the test of line 723
DrainUnchecked ==
    /\ pc = "drain"
    /\ Len(stack) > 0
    /\ result' = Append(result, Top(stack))
    /\ stack' = Pop(stack)
    /\ UNCHANGED <<data, index, variable, err, pc>>
    /\ UNCHANGED <<evalVars, previous>>

\* one turn of the loop of lines 720-728
Drain ==
    /\ pc = "drain"
    /\ Len(stack) > 0
    /\ LET temp == Top(stack) IN
       IF priority(temp) = 0 /\ temp \notin functions
       THEN Fail(index, NotAnOperation)
       ELSE /\ result' = Append(result, temp)
            /\ stack' = Pop(stack)
            /\ UNCHANGED <<data, index, variable, err, pc>>
            /\ UNCHANGED <<evalVars, previous>>

Return ==
    /\ pc = "drain"
    /\ Len(stack) = 0
    /\ pc' = "done"
    /\ UNCHANGED <<data, index, result, stack, variable, err>>
    /\ UNCHANGED <<evalVars, previous>>

(***************************************************************************)
(* Nodes and the operations on them.  A node is its type and its value:    *)
(* the boolean, the number, the string or, of an array or object, the      *)
(* number of its elements, in the field of its type.  NilNode is the nil   *)
(* *Node a call returns with an error.                                     *)
(*                                                                         *)
(* A float64 is the exact fraction num / den in lowest terms, den > 0.  A  *)
(* value too wide for that, the float64 of a large uint, is the sequence   *)
(* wide of its base-2^16 digits, the lowest first.                         *)
(***************************************************************************)
Null    == "Null"
Numeric == "Numeric"
String  == "String"
Bool    == "Bool"
Array   == "Array"
Object  == "Object"

\* varNode(nil, key, type, value)
varNode(type, value) ==
    [ type |-> type,
      bool |-> IF type = Bool THEN value ELSE FALSE,
      num  |-> IF type = Numeric THEN value ELSE 0,
      den  |-> 1,
      wide |-> <<>>,
      str  |-> IF type = String THEN value ELSE "",
      size |-> IF type = Array \/ type = Object THEN value ELSE 0 ]

Abs(x) == IF x < 0 THEN -x ELSE x

RECURSIVE GCD(_, _)
GCD(a, b) == IF b = 0 THEN a ELSE GCD(b, a % b)

\* the float64 n / d, d # 0
Float(n, d) ==
    LET g == GCD(Abs(n), Abs(d))
        s == IF d < 0 THEN -1 ELSE 1
    IN [num |-> (s * n) \div g, den |-> (s * d) \div g]

\* varNode(nil, key, Numeric, f) of a float64 f
floatNode(f) == [varNode(Numeric, f.num) EXCEPT !.den = f.den]

NilNode == varNode("nil", 0)

\* what a call of rpn returned, and no call has returned
Outcome(r, e) == [result |-> r, err |-> e]

NoOutcome == Outcome(<<>>, "none")

\* no evaluation is under way
NoEvaluation ==
    /\ left = NilNode
    /\ right = NilNode
    /\ operator = ""
    /\ node = NilNode
    /\ coerced = <<>>

(***************************************************************************)
(* The formulas compiled                                                   *)
(***************************************************************************)
MaxLen == 4
MaxTokens == 3

\* the keys of priority
OpSymbols ==
    { <<"*", "*">>, <<"*">>, <<"/">>, <<"%">>, <<"<", "<">>, <<">", ">">>,
      <<"&">>, <<"&", "^">>, <<"+">>, <<"-">>, <<"|">>, <<"^">>,
      <<"=", "=">>, <<"!", "=">>, <<"<">>, <<"<", "=">>, <<">">>,
      <<">", "=">>, <<"&", "&">>, <<"|", "|">> }

\* operator symbols that priority does not hold
UnknownOps == { <<"=">>, <<"!">> }

NumLits == { <<"1">>, <<"2">>, <<"3">>, <<"-", "3">>, <<"1", ".", "5">> }

StrLits ==
    { <<q, "x", q>> : q \in {quote, quotes} } \cup
    { <<q, q>> : q \in {quote, quotes} } \cup
    { <<q, "a", backslash, q, "b", q>> : q \in {quote, quotes} } \cup
    { <<q, "a", backslash, backslash, q>> : q \in {quote, quotes} } \cup
    { <<q, "x", " ", ")", q>> : q \in {quote, quotes} }

VarRefs == { <<"@", ".", "a">>, <<"$", ".", "b", "[", "0", "]">>, <<"@">> }

ConstNames == { <<"p", "i">>, <<"t", "r", "u", "e">>, <<"P", "I">> }

Operands == NumLits \cup StrLits \cup VarRefs \cup ConstNames

\* the lexemes joined by one space
RECURSIVE Join(_)
Join(ts) ==
    IF Len(ts) = 0 THEN <<>>
    ELSE IF Len(ts) = 1 THEN ts[1]
    ELSE ts[1] \o <<skipS>> \o Join(Tail(ts))

\* every byte string of at most MaxLen of these bytes
CoreBytes == {"1", "+", "*", "=", "(", ")", "'", "@", " ", "e"}

ByteStrings == UNION { [1..n -> CoreBytes] : n \in 0..MaxLen }

\* at most MaxTokens of these lexemes, a space between two
Vocabulary ==
    { <<"1">>, <<"2">>, <<"+">>, <<"*">>, <<"=">>, <<"(">>, <<")">>,
      <<"@", ".", "a">>, <<"'", "x", "'">>, <<"s", "i", "n">> }

TokenStrings == UNION { { Join(ts) : ts \in [1..n -> Vocabulary] } : n \in 1..MaxTokens }

\* a op1 b op2 c
Infix ==
    { Join(<<a, o1, b, o2, c>>) :
        a \in {<<"1">>, <<"2">>}, b \in {<<"2">>, <<"3">>},
        c \in {<<"3">>, <<"2">>, <<"-", "3">>, <<"1", ".", "5">>},
        o1 \in OpSymbols, o2 \in OpSymbols }

GroupOperands == { <<"1">>, <<"2">>, <<"@", ".", "a">>, <<"-", "3">> }

\* (a op b), with or without either parenthesis
Grouped ==
    { l \o Join(<<a, o, b>>) \o r :
        l \in {<<>>, <<parenthesesL>>}, r \in {<<>>, <<parenthesesR>>},
        a \in GroupOperands, b \in GroupOperands \ {<<"@", ".", "a">>},
        o \in OpSymbols \cup UnknownOps }

\* a b and a op b over every kind of operand
Pairs ==
    { Join(<<a, b>>) : a \in Operands, b \in Operands } \cup
    { Join(<<a, <<"=", "=">>, b>>) : a \in VarRefs, b \in Operands } \cup
    { a \o <<"=", "=">> \o b : a \in VarRefs, b \in Operands }

\* formulas that end inside a token: in a quoted string, alone or in a
\* variable reference, or in a bracket or parenthesis of a variable reference
Unterminated ==
    { <<"@", ".", "a", "'", "f", "o", "o">>, <<"@", ".", "a", "'">>,
      <<"'", "f", "o", "o">>, <<"'">>, <<"@", "[", "'", "a", "'">>,
      <<"@", "[", "'", "a">>, <<"@", ".", "a", "(", "1">>,
      <<"$", "[", "0">>, <<"1", " ", "+", " ", "@", "'", "x">>,
      <<"1", " ", "+", " ", "'", "x">> }

\* the same tokens, ended
Terminated ==
    { <<"@", ".", "a", "'", "f", "o", "o", "'">>, <<"'", "f", "o", "o", "'">>,
      <<"@", "[", "'", "a", "'", "]">>, <<"@", ".", "a", "(", "1", ")">>,
      <<"$", "[", "0", "]">>, <<"1", " ", "+", " ", "@", "'", "x", "'">>,
      <<"1", " ", "+", " ", "'", "x", "'">> }

\* calls of functions, registered or not, in either case
Calls ==
    { <<"s", "i", "n", "(", "1", ")">>,
      <<"s", "I", "n", "(", "1", ")">>,
      <<"s", "i", "n", "(", "1", ")", " ", "+", " ", "2">>,
      <<"s", "i", "n", "(", "1", " ", "+", " ", "2", ")">>,
      <<"2", " ", "*", " ", "c", "o", "s", "(", "@", ".", "a", ")">>,
      <<"s", "i", "n", "(", "c", "o", "s", "(", "p", "i", ")", ")">>,
      <<"s", "i", "n", "(", ")">>,
      <<"f", "o", "o", "(", "1", ")">> }

Formulas ==
    ByteStrings \cup TokenStrings \cup Infix \cup Grouped \cup Pairs
        \cup Unterminated \cup Terminated \cup Calls

Init ==
    /\ data \in Formulas
    /\ NoEvaluation
    /\ previous = NoOutcome
    /\ index = 0
    /\ result = <<>>
    /\ stack = <<>>
    /\ variable = FALSE
    /\ err = Nil
    /\ pc = "loop"

Next ==
    \/ LoopEnd
    \/ ScanOperation
    \/ OperationSymbol
    \/ ScanNumber
    \/ ScanString
    \/ ScanVariable
    \/ ParenthesesL
    \/ ParenthesesR
    \/ Identifier
    \/ Drain
    \/ Return

Spec == Init /\ [][Next]_vars

(***************************************************************************)
(* The claims about the compiler                                           *)
(***************************************************************************)
\* the formula cut at its spaces
RECURSIVE SplitFrom(_, _, _, _)
SplitFrom(s, i, word, out) ==
    IF i > Len(s) THEN Append(out, word)
    ELSE IF s[i] = skipS THEN SplitFrom(s, i + 1, <<>>, Append(out, word))
    ELSE SplitFrom(s, i + 1, Append(word, s[i]), out)

WordsOf(s) == SplitFrom(s, 1, <<>>, <<>>)

Words == WordsOf(data)

Done == pc = "done"

\* a op1 b op2 c, the operands numeric literals, the operators keys of priority
IsInfix ==
    /\ Len(Words) = 5
    /\ Words[1] \in NumLits /\ Words[3] \in NumLits /\ Words[5] \in NumLits
    /\ Words[2] \in OpSymbols /\ Words[4] \in OpSymbols

\* C1: a op1 b op2 c with operators of different precedence compiles to
\* a b op1 c op2 when op1 binds tighter than op2 and to a b c op2 op1 when
\* op2 binds tighter than op1.
C1_Precedence ==
    (Done /\ IsInfix /\ priority(Words[2]) # priority(Words[4])) =>
        /\ err = Nil
        /\ result =
              IF priority(Words[2]) > priority(Words[4])
              THEN <<Words[1], Words[3], Words[2], Words[5], Words[4]>>
              ELSE <<Words[1], Words[3], Words[5], Words[4], Words[2]>>

\* C2: a op b op c compiles to a b c ** ** for the power operator and to
\* a b op c op for every other operator of the precedence table.
C2_Associativity ==
    (Done /\ IsInfix /\ Words[2] = Words[4]) =>
        /\ err = Nil
        /\ result =
              IF Words[2] = <<"*", "*">>
              THEN <<Words[1], Words[3], Words[5], Words[4], Words[2]>>
              ELSE <<Words[1], Words[3], Words[2], Words[5], Words[4]>>

HasParenthesis(stk) == \E i \in 1..Len(stk) : stk[i] = <<parenthesesL>>

\* a op b between operands, op in ops
IsBinary(s, ops) ==
    LET w == WordsOf(s) IN
    /\ Len(w) = 3
    /\ w[1] \in GroupOperands /\ w[3] \in GroupOperands
    /\ w[2] \in ops

\* (a op b
IsUnclosedGroup ==
    /\ Len(data) > 1
    /\ data[1] = parenthesesL
    /\ IsBinary(Tail(data), OpSymbols)

\* C3, as the claim states it: a formula that leaves a parenthesis open
\* fails with an end-of-input error and returns no sequence.
C3_EndOfInput ==
    (Done /\ IsUnclosedGroup) => (err = ErrorEOF /\ result = <<>>)

\* C3, amended: a formula that leaves a parenthesis open fails with a
\* malformed-expression error and returns no sequence; when the end of the
\* input is reached with a ( on the stack, emptying the stack ends in the
\* error "is not an operation or function", and no call returns without
\* error with a ( left on its stack.
C3_Unclosed ==
    /\ [](Done /\ IsUnclosedGroup => err \in RequestErrors /\ result = <<>>)
    /\ [](Done /\ err = Nil => ~HasParenthesis(stack))
    /\ [][ (pc = "drain" /\ HasParenthesis(stack)) =>
              \/ pc' = "drain" /\ HasParenthesis(stack')
              \/ pc' = "done" /\ err' = NotAnOperation /\ result' = <<>> ]_vars

C3_Witness ==
    /\ Done
    /\ data = <<"(", "1", " ", "+", " ", "2">>
    /\ err = NotAnOperation
    /\ result = <<>>
    /\ HasParenthesis(stack)

Reverse(s) == [i \in 1..Len(s) |-> s[Len(s) + 1 - i]]

\* the place of the topmost ( of the stack
LastParenthesis(stk) ==
    CHOOSE i \in 1..Len(stk) :
        /\ stk[i] = <<parenthesesL>>
        /\ \A j \in (i + 1)..Len(stk) : stk[j] # <<parenthesesL>>

\* a op b), op an operator the compiler reads
IsUnopenedGroup ==
    /\ Len(data) > 1
    /\ data[Len(data)] = parenthesesR
    /\ IsBinary(SubSeq(data, 1, Len(data) - 1), {o \in OpSymbols : IsOperation(o[1])})

C4_WitnessUnopened ==
    /\ Done
    /\ data = <<"1", " ", "+", " ", "2", ")">>
    /\ err = NoLeftParen

\* a number, a string, a variable reference or a constant
IsOperandLexeme(t) ==
    /\ Len(t) > 0
    /\ \/ t \in constants
       \/ t[1] = quote \/ t[1] = quotes \/ t[1] = at \/ t[1] = dollar
       \/ t[1] = dot \/ IsDigit(t[1])
       \/ (t[1] = plus \/ t[1] = minus) /\ Len(t) > 1

\* a op b or (a op b) with an operator symbol that priority does not hold
UsesUnknownOperator ==
    \/ IsBinary(data, UnknownOps)
    \/ /\ Len(data) > 2
       /\ data[1] = parenthesesL /\ data[Len(data)] = parenthesesR
       /\ IsBinary(SubSeq(data, 2, Len(data) - 1), UnknownOps)

\* C6: a formula with an operator symbol that is not registered fails with
\* a malformed-expression error, also inside parentheses; every token of a
\* sequence returned without error is an operand, a registered operator or
\* a registered function.
C6_RegisteredOnly ==
    /\ (Done /\ UsesUnknownOperator) => (err \in RequestErrors /\ result = <<>>)
    /\ (Done /\ err = Nil) =>
          \A i \in 1..Len(result) :
              \/ IsOperandLexeme(result[i])
              \/ priority(result[i]) # 0
              \/ result[i] \in functions

\* a b
IsOperandPair == \E a \in Operands, b \in Operands : data = Join(<<a, b>>)

\* C7: two operands with no operator between them make the compilation
\* fail: it returns an error and no sequence.
C7_ConsecutiveOperands ==
    (Done /\ IsOperandPair) => (err # Nil /\ result = <<>>)

\* C8: a string literal in single or in double quotes is one operand, its
\* delimiters included: v == s compiles to v s ==.
C8_StringLiteral ==
    Done =>
        \A v \in VarRefs, s \in StrLits :
            data = Join(<<v, <<"=", "=">>, s>>) =>
                /\ err = Nil
                /\ result = <<v, s, <<"=", "=">> >>

OddQuotes(s) == Cardinality({i \in 1..Len(s) : s[i] = quote}) % 2 = 1

HasBackslash(s) == \E i \in 1..Len(s) : s[i] = backslash

\* C9: a formula that ends inside a token (a quoted string that is not
\* closed, alone or in a variable reference, a bracket or parenthesis of a
\* variable reference that is not closed) returns an error and no sequence.
C9_MidToken ==
    (Done /\ (data \in Unterminated \/ (OddQuotes(data) /\ ~HasBackslash(data)))) =>
        (err # Nil /\ err # Panic /\ result = <<>>)

(***************************************************************************)
(* numeric() called on its own, from the start of the buffer               *)
(***************************************************************************)
MaxNumLen == 5

NumBytes == {"1", ".", "+", "e", ","}

\* the malformed literals the specification names
Malformed ==
    { <<"1", ".", "2", ".", "3">>, <<"1", "e">>, <<".", "e", "5">>,
      <<"1", "e", "+">> }

NumericStrings ==
    UNION { [1..n -> NumBytes] : n \in 0..MaxNumLen } \cup Malformed
        \cup { <<"-", "1", ".", "5", "E", "-", "2">>, <<"1", "2", "3">> }

InitNumeric ==
    /\ data \in NumericStrings
    /\ NoEvaluation
    /\ previous = NoOutcome
    /\ index = 0
    /\ result = <<>>
    /\ stack = <<>>
    /\ variable = FALSE
    /\ err = Nil
    /\ pc = "numeric"

CallNumeric ==
    /\ pc = "numeric"
    /\ index' = numeric(index).index
    /\ err' = numeric(index).err
    /\ pc' = "done"
    /\ UNCHANGED <<data, result, stack, variable>>
    /\ UNCHANGED <<evalVars, previous>>

NextNumeric == CallNumeric

SpecNumeric == InitNumeric /\ [][NextNumeric]_vars

\* the end of the run of digits of s that starts at i
RECURSIVE DigitsEnd(_, _)
DigitsEnd(s, i) ==
    IF i <= Len(s) /\ IsDigit(s[i]) THEN DigitsEnd(s, i + 1) ELSE i

IsSign(c) == c = plus \/ c = minus

\* the grammar of a numeric literal: a sign or none, digits, a point with
\* digits after it or none, an exponent or none with a sign or none and
\* digits; the digits before the point may be missing
IsNumber(s) ==
    LET i1 == IF Len(s) >= 1 /\ IsSign(s[1]) THEN 2 ELSE 1
        i2 == DigitsEnd(s, i1)
        point == i2 <= Len(s) /\ s[i2] = dot
        i3 == IF point THEN DigitsEnd(s, i2 + 1) ELSE i2
        exponent == i3 <= Len(s) /\ (s[i3] = "e" \/ s[i3] = "E")
        i4 == IF exponent /\ i3 + 1 <= Len(s) /\ IsSign(s[i3 + 1])
              THEN i3 + 2 ELSE i3 + 1
        i5 == IF exponent THEN DigitsEnd(s, i4) ELSE i3
    IN /\ IF point THEN i3 > i2 + 1 ELSE i2 > i1
       /\ exponent => i5 > i4
       /\ i5 = Len(s) + 1

\* C5: numeric() reports success, nil at a terminator and io.EOF at the end
\* of the buffer, only when the bytes it consumed are a numeric literal of
\* the grammar, and the malformed literals 1.2.3, 1e, .e5 and 1e+ fail with
\* a symbol or an end-of-input error.
C5_Grammar ==
    /\ (Done /\ (err = Nil \/ err = EOF)) => IsNumber(SubSeq(data, 1, index))
    /\ (Done /\ data \in Malformed) => (err = ErrorSymbol \/ err = ErrorEOF)

(***************************************************************************)
(* The operations called on two operand nodes                              *)
(***************************************************************************)
TypeMismatch == "wrong type of node"

\* the typed getters of a node: the value, or an error when the node is of
\* another type
GetBool(n) ==
    IF n.type = Bool THEN [value |-> n.bool, err |-> Nil]
    ELSE [value |-> FALSE, err |-> TypeMismatch]

GetNumeric(n) ==
    IF n.type = Numeric THEN [value |-> Float(n.num, n.den), err |-> Nil]
    ELSE [value |-> Float(0, 1), err |-> TypeMismatch]

GetString(n) ==
    IF n.type = String THEN [value |-> n.str, err |-> Nil]
    ELSE [value |-> "", err |-> TypeMismatch]

\* Empty(): an array or object without elements
Empty(n) == n.size = 0

\* boolean() with the test of an array or object reversed
booleanOfEmpty(n) ==
    CASE n.type = Bool -> GetBool(n)
      [] n.type = Numeric ->
            [value |-> GetNumeric(n).value # Float(0, 1), err |-> GetNumeric(n).err]
      [] n.type = String ->
            [value |-> GetString(n).value # "", err |-> GetString(n).err]
      [] n.type = Null -> [value |-> FALSE, err |-> Nil]
      [] n.type = Array \/ n.type = Object -> [value |-> Empty(n), err |-> Nil]
      [] OTHER -> [value |-> FALSE, err |-> Nil]

boolean(n) ==
    CASE n.type = Bool -> GetBool(n)
      [] n.type = Numeric ->
            [value |-> GetNumeric(n).value # Float(0, 1), err |-> GetNumeric(n).err]
      [] n.type = String ->
            [value |-> GetString(n).value # "", err |-> GetString(n).err]
      [] n.type = Null -> [value |-> FALSE, err |-> Nil]
      [] n.type = Array \/ n.type = Object -> [value |-> ~Empty(n), err |-> Nil]
      [] OTHER -> [value |-> FALSE, err |-> Nil]

\* what an operation returns, with the operands it handed to boolean()
Returned(n, e, calls) == [node |-> n, err |-> e, coerced |-> calls]

\* operations["&&"]
operationAnd(l, r) ==
    LET lval == boolean(l) IN
    IF lval.err # Nil THEN Returned(NilNode, lval.err, <<"left">>)
    ELSE IF lval.value
    THEN LET rval == boolean(r) IN
         IF rval.err # Nil THEN Returned(NilNode, rval.err, <<"left", "right">>)
         ELSE Returned(varNode(Bool, ~rval.value), Nil, <<"left", "right">>)
    ELSE Returned(varNode(Bool, ~FALSE), Nil, <<"left">>)

\* operations["||"]
operationOr(l, r) ==
    LET lval == boolean(l) IN
    IF lval.err # Nil THEN Returned(NilNode, lval.err, <<"left">>)
    ELSE IF ~lval.value
    THEN LET rval == boolean(r) IN
         IF rval.err # Nil THEN Returned(NilNode, rval.err, <<"left", "right">>)
         ELSE Returned(varNode(Bool, ~rval.value), Nil, <<"left", "right">>)
    ELSE Returned(varNode(Bool, ~TRUE), Nil, <<"left">>)

\* the node-level comparisons: Eq on two nodes of one type, the orderings on
\* two numbers or two strings, and an error on any other pair
StringBefore(a, b) == a # b /\ (a = "" \/ (b # "" /\ Ord[a] < Ord[b]))

Before(l, r) ==
    IF l.type = Numeric THEN l.num * r.den < r.num * l.den
    ELSE StringBefore(l.str, r.str)

Ordered(l, r) == l.type = r.type /\ (l.type = Numeric \/ l.type = String)

Eq(l, r) ==
    IF l.type = r.type THEN [value |-> l = r, err |-> Nil]
    ELSE [value |-> FALSE, err |-> TypeMismatch]

Le(l, r) ==
    IF Ordered(l, r) THEN [value |-> Before(l, r), err |-> Nil]
    ELSE [value |-> FALSE, err |-> TypeMismatch]

Leq(l, r) ==
    IF Ordered(l, r) THEN [value |-> ~Before(r, l), err |-> Nil]
    ELSE [value |-> FALSE, err |-> TypeMismatch]

Ge(l, r) ==
    IF Ordered(l, r) THEN [value |-> Before(r, l), err |-> Nil]
    ELSE [value |-> FALSE, err |-> TypeMismatch]

Geq(l, r) ==
    IF Ordered(l, r) THEN [value |-> ~Before(l, r), err |-> Nil]
    ELSE [value |-> FALSE, err |-> TypeMismatch]

\* operations["=="]
operationEq(l, r) ==
    LET p == Eq(l, r) IN
    IF p.err # Nil THEN Returned(NilNode, p.err, <<>>)
    ELSE Returned(varNode(Bool, p.value), Nil, <<>>)

\* operations["!="]
operationNeq(l, r) ==
    LET p == Eq(l, r) IN
    IF p.err # Nil THEN Returned(NilNode, p.err, <<>>)
    ELSE Returned(varNode(Bool, ~p.value), Nil, <<>>)

\* operations["<"]
operationLe(l, r) ==
    LET p == Le(l, r) IN
    IF p.err # Nil THEN Returned(NilNode, p.err, <<>>)
    ELSE Returned(varNode(Bool, ~p.value), Nil, <<>>)

\* operations["<="]
operationLeq(l, r) ==
    LET p == Leq(l, r) IN
    IF p.err # Nil THEN Returned(NilNode, p.err, <<>>)
    ELSE Returned(varNode(Bool, ~p.value), Nil, <<>>)

\* operations[">"]
operationGe(l, r) ==
    LET p == Ge(l, r) IN
    IF p.err # Nil THEN Returned(NilNode, p.err, <<>>)
    ELSE Returned(varNode(Bool, ~p.value), Nil, <<>>)

\* operations[">="]
operationGeq(l, r) ==
    LET p == Geq(l, r) IN
    IF p.err # Nil THEN Returned(NilNode, p.err, <<>>)
    ELSE Returned(varNode(Bool, ~p.value), Nil, <<>>)

DivisionByZero == "division by zero"

\* _floats(left, right)
floats(l, r) ==
    LET lnum == GetNumeric(l)
        rnum == GetNumeric(r)
    IN [lnum |-> lnum.value,
        rnum |-> rnum.value,
        err  |-> IF lnum.err # Nil THEN lnum.err ELSE rnum.err]

\* lnum / rnum on float64, rnum # 0
Quotient(lnum, rnum) == Float(lnum.num * rnum.den, lnum.den * rnum.num)

\* operations["/"] without the test of rnum == 0: the float64 division by
\* zero gives an infinity or a NaN, a number with the denominator 0
operationDivisionUnchecked(l, r) ==
    LET f == floats(l, r) IN
    IF f.err # Nil THEN Returned(NilNode, f.err, <<>>)
    ELSE IF f.rnum = Float(0, 1)
    THEN Returned([varNode(Numeric, f.lnum.num) EXCEPT !.den = 0], Nil, <<>>)
    ELSE Returned(floatNode(Quotient(f.lnum, f.rnum)), Nil, <<>>)

\* operations["/"]
operationDivision(l, r) ==
    LET f == floats(l, r) IN
    IF f.err # Nil THEN Returned(NilNode, f.err, <<>>)
    ELSE IF f.rnum = Float(0, 1)
    THEN Returned(NilNode, DivisionByZero, <<>>)
    ELSE Returned(floatNode(Quotient(f.lnum, f.rnum)), Nil, <<>>)

\* the integer getters: the value of a number without a fraction, and for
\* getUInteger without a sign, or an error
getInteger(n) ==
    IF n.type = Numeric /\ n.den = 1 THEN [value |-> n.num, err |-> Nil]
    ELSE [value |-> 0, err |-> TypeMismatch]

getUInteger(n) ==
    IF n.type = Numeric /\ n.den = 1 /\ n.num >= 0 THEN [value |-> n.num, err |-> Nil]
    ELSE [value |-> 0, err |-> TypeMismatch]

\* _ints(left, right)
ints(l, r) ==
    LET lnum == getInteger(l)
        rnum == getInteger(r)
    IN [lnum |-> lnum.value,
        rnum |-> rnum.value,
        err  |-> IF lnum.err # Nil THEN lnum.err ELSE rnum.err]

DivideError == "panic: integer divide by zero"

\* Go's x % y on int, y # 0: the sign of the dividend
Remainder(x, y) == IF x < 0 THEN -(Abs(x) % Abs(y)) ELSE Abs(x) % Abs(y)

\* Go's x << y and x >> y on int, 0 <= y < 64 and no overflow
ShiftLeft(x, y) == x * 2^y

ShiftRight(x, y) == x \div 2^y

\* Go's x & y on int, in two's complement
RECURSIVE IntAnd(_, _)
IntAnd(x, y) ==
    IF x = 0 \/ y = 0 THEN 0
    ELSE IF x = -1 THEN y
    ELSE IF y = -1 THEN x
    ELSE (x % 2) * (y % 2) + 2 * IntAnd(x \div 2, y \div 2)

\* operations["%"]: both operands are read from left
operationRemainder(l, r) ==
    LET lnum == getInteger(l)
        rnum == getInteger(l)
    IN IF lnum.err # Nil THEN Returned(NilNode, lnum.err, <<>>)
       ELSE IF rnum.err # Nil THEN Returned(NilNode, rnum.err, <<>>)
       ELSE IF rnum.value = 0 THEN Returned(NilNode, DivideError, <<>>)
       ELSE Returned(varNode(Numeric, Remainder(lnum.value, rnum.value)), Nil, <<>>)

\* operations["<<"]: both operands are read from left
operationShiftLeft(l, r) ==
    LET lnum == getInteger(l)
        rnum == getUInteger(l)
    IN IF lnum.err # Nil THEN Returned(NilNode, lnum.err, <<>>)
       ELSE IF rnum.err # Nil THEN Returned(NilNode, rnum.err, <<>>)
       ELSE Returned(varNode(Numeric, ShiftLeft(lnum.value, rnum.value)), Nil, <<>>)

\* operations[">>"]: both operands are read from left
operationShiftRight(l, r) ==
    LET lnum == getInteger(l)
        rnum == getUInteger(l)
    IN IF lnum.err # Nil THEN Returned(NilNode, lnum.err, <<>>)
       ELSE IF rnum.err # Nil THEN Returned(NilNode, rnum.err, <<>>)
       ELSE Returned(varNode(Numeric, ShiftRight(lnum.value, rnum.value)), Nil, <<>>)

\* operations["&"]
operationBitAnd(l, r) ==
    LET n == ints(l, r) IN
    IF n.err # Nil THEN Returned(NilNode, n.err, <<>>)
    ELSE Returned(varNode(Numeric, IntAnd(n.lnum, n.rnum)), Nil, <<>>)

\* operations["&^"]: lnum & rnum
operationBitClear(l, r) ==
    LET n == ints(l, r) IN
    IF n.err # Nil THEN Returned(NilNode, n.err, <<>>)
    ELSE Returned(varNode(Numeric, IntAnd(n.lnum, n.rnum)), Nil, <<>>)

\* A uint is the sequence of its four base-2^16 digits, the lowest first: 64
\* bits.  A number of any width is the sequence of its digits without a
\* zero at the high end.
Base == 2^16

RECURSIVE Trim(_)
Trim(w) ==
    IF w # <<>> /\ w[Len(w)] = 0 THEN Trim(SubSeq(w, 1, Len(w) - 1)) ELSE w

\* w * x + carry, for a small x
RECURSIVE MulLimbs(_, _, _)
MulLimbs(w, x, carry) ==
    IF w = <<>>
    THEN IF carry = 0 THEN <<>> ELSE <<carry % Base>> \o MulLimbs(<<>>, x, carry \div Base)
    ELSE LET p == w[1] * x + carry
         IN <<p % Base>> \o MulLimbs(Tail(w), x, p \div Base)

\* x * w on uint, for a small x: the carry out of the fourth digit is lost
Mul64(x, w) ==
    LET p1 == w[1] * x
        p2 == w[2] * x + p1 \div Base
        p3 == w[3] * x + p2 \div Base
        p4 == w[4] * x + p3 \div Base
    IN <<p1 % Base, p2 % Base, p3 % Base, p4 % Base>>

RECURSIVE mathFactorial(_)
mathFactorial(x) ==
    IF x = 0 THEN <<1, 0, 0, 0>> ELSE Mul64(x, mathFactorial(x - 1))

\* the number of the calls of mathFactorial nested in mathFactorial(x)
RECURSIVE nestedCalls(_)
nestedCalls(x) == IF x = 0 THEN 0 ELSE 1 + nestedCalls(x - 1)

\* the bits of a uint, the lowest first, and back
RECURSIVE ToBits(_)
ToBits(w) ==
    IF w = <<>> THEN <<>>
    ELSE [i \in 1..16 |-> (w[1] \div 2^(i - 1)) % 2] \o ToBits(Tail(w))

RECURSIVE BitsValue(_)
BitsValue(b) == IF b = <<>> THEN 0 ELSE b[1] + 2 * BitsValue(Tail(b))

RECURSIVE FromBits(_)
FromBits(b) ==
    IF Len(b) <= 16 THEN <<BitsValue(b)>>
    ELSE <<BitsValue(SubSeq(b, 1, 16))>> \o FromBits(SubSeq(b, 17, Len(b)))

RECURSIVE BitLength(_)
BitLength(b) ==
    IF b = <<>> THEN 0
    ELSE IF b[Len(b)] = 1 THEN Len(b)
    ELSE BitLength(SubSeq(b, 1, Len(b) - 1))

RECURSIVE Increment(_)
Increment(b) ==
    IF b = <<>> THEN <<1>>
    ELSE IF b[1] = 0 THEN <<1>> \o Tail(b)
    ELSE <<0>> \o Increment(Tail(b))

\* float64(x) of a uint x: the 53 highest bits, rounded to the nearest, to
\* the even on a tie
float64(w) ==
    LET b == ToBits(w)
        shift == BitLength(b) - 53
    IN IF shift <= 0 THEN Trim(w)
       ELSE LET keep == SubSeq(b, shift + 1, BitLength(b))
                sticky == \E i \in 1..(shift - 1) : b[i] = 1
                up == b[shift] = 1 /\ (sticky \/ keep[1] = 1)
            IN Trim(FromBits([i \in 1..shift |-> 0] \o
                             (IF up THEN Increment(keep) ELSE keep)))

\* varNode(nil, key, Numeric, f) of a float64 f that is a whole number
wholeNode(w) ==
    IF Len(w) <= 1 \/ (Len(w) = 2 /\ w[2] < 2^15)
    THEN varNode(Numeric, BitsValue(ToBits(w)))
    ELSE [varNode(Numeric, 0) EXCEPT !.wide = w]

\* functions["factorial"]
functionFactorial(n) ==
    LET num == getUInteger(n) IN
    IF num.err # Nil THEN Returned(NilNode, num.err, <<>>)
    ELSE Returned(wholeNode(float64(Trim(mathFactorial(num.value)))), Nil, <<>>)

MaxFactorial == 22

\* the operand nodes
Nodes ==
    { varNode(Bool, b) : b \in BOOLEAN } \cup
    { varNode(Numeric, x) : x \in {-1, 0, 1, 2, 3} } \cup
    { varNode(Numeric, x) : x \in 4..MaxFactorial } \cup
    { floatNode(Float(3, 2)) } \cup
    { varNode(String, x) : x \in {"", "a", "0"} } \cup
    { varNode(Null, 0) } \cup
    { varNode(Array, x) : x \in {0, 1, 2} } \cup
    { varNode(Object, x) : x \in {0, 1} }

InitEval ==
    /\ previous = NoOutcome
    /\ data = <<>>
    /\ index = 0
    /\ result = <<>>
    /\ stack = <<>>
    /\ variable = FALSE
    /\ err = Nil
    /\ pc = "eval"
    /\ left \in Nodes
    /\ right \in Nodes
    /\ operator = ""
    /\ node = NilNode
    /\ coerced = <<>>

\* the call of one operation on the operands
Call(symbol, r) ==
    /\ pc = "eval"
    /\ operator' = symbol
    /\ node' = r.node
    /\ err' = r.err
    /\ coerced' = r.coerced
    /\ pc' = "done"
    /\ UNCHANGED <<data, index, result, stack, variable, left, right, previous>>

And == Call("&&", operationAnd(left, right))

Or == Call("||", operationOr(left, right))

Equal == Call("==", operationEq(left, right))

NotEqual == Call("!=", operationNeq(left, right))

Less == Call("<", operationLe(left, right))

LessOrEqual == Call("<=", operationLeq(left, right))

Greater == Call(">", operationGe(left, right))

GreaterOrEqual == Call(">=", operationGeq(left, right))

Division == Call("/", operationDivision(left, right))

Remainders == Call("%", operationRemainder(left, right))

ShiftsLeft == Call("<<", operationShiftLeft(left, right))

ShiftsRight == Call(">>", operationShiftRight(left, right))

BitwiseAnd == Call("&", operationBitAnd(left, right))

BitClear == Call("&^", operationBitClear(left, right))

\* the call boolean(left); the bool returned is kept as the Bool node of it
Boolean ==
    Call("boolean", Returned(varNode(Bool, boolean(left).value), boolean(left).err, <<"left">>))

Factorial == Call("factorial", functionFactorial(left))

NextEval ==
    \/ And
    \/ Or
    \/ Equal
    \/ NotEqual
    \/ Less
    \/ LessOrEqual
    \/ Greater
    \/ GreaterOrEqual
    \/ Division
    \/ Remainders
    \/ ShiftsLeft
    \/ ShiftsRight
    \/ BitwiseAnd
    \/ BitClear
    \/ Boolean
    \/ Factorial

SpecEval == InitEval /\ [][NextEval]_vars

\* C10: && returns the Bool node of truthy(left) and truthy(right), ||
\* that of truthy(left) or truthy(right), and the right operand is coerced
\* only when the left one does not decide the result.
C10_Logical ==
    (Done /\ err = Nil) =>
        /\ operator = "&&" =>
              /\ node = varNode(Bool, boolean(left).value /\ boolean(right).value)
              /\ coerced = IF boolean(left).value THEN <<"left", "right">> ELSE <<"left">>
        /\ operator = "||" =>
              /\ node = varNode(Bool, boolean(left).value \/ boolean(right).value)
              /\ coerced = IF boolean(left).value THEN <<"left">> ELSE <<"left", "right">>

\* the result a comparison operator owes for the outcome p of its predicate
Wrapped(p, value) ==
    IF p.err # Nil THEN err = p.err /\ node = NilNode
    ELSE err = Nil /\ node = varNode(Bool, value)

\* C11: == returns the Bool node of Eq(l, r), != that of its negation, <
\* that of Le(l, r), <= of Leq(l, r), > of Ge(l, r) and >= of Geq(l, r), and
\* an error of the predicate is returned with no node.
C11_Comparisons ==
    Done =>
        /\ operator = "==" => Wrapped(Eq(left, right), Eq(left, right).value)
        /\ operator = "!=" => Wrapped(Eq(left, right), ~Eq(left, right).value)
        /\ operator = "<" => Wrapped(Le(left, right), Le(left, right).value)
        /\ operator = "<=" => Wrapped(Leq(left, right), Leq(left, right).value)
        /\ operator = ">" => Wrapped(Ge(left, right), Ge(left, right).value)
        /\ operator = ">=" => Wrapped(Geq(left, right), Geq(left, right).value)

\* C12: / on two numbers returns the error 'division by zero' and no node
\* when the right one is zero, and the Numeric node of left / right when it
\* is not.
C12_Division ==
    (Done /\ operator = "/" /\ left.type = Numeric /\ right.type = Numeric) =>
        IF right.num = 0
        THEN err = DivisionByZero /\ node = NilNode
        ELSE /\ err = Nil
             /\ node.type = Numeric
             /\ node.den > 0
             /\ node.num * right.num * left.den = left.num * right.den * node.den

\* a division of a number by zero has returned
C12_Witness ==
    /\ Done
    /\ operator = "/"
    /\ left.type = Numeric /\ left.num # 0
    /\ right = varNode(Numeric, 0)
    /\ err = DivisionByZero

\* both operands are integers
IntegerOperands ==
    /\ left.type = Numeric /\ left.den = 1
    /\ right.type = Numeric /\ right.den = 1

\* C13: on integers l and r, % returns the remainder of l by r (r # 0),
\* << and >> return l shifted by r (r >= 0), & returns l AND r and &^
\* returns l AND NOT r, and none of them faults.
C13_IntegerOps ==
    (Done /\ IntegerOperands) =>
        /\ (operator = "%" /\ right.num # 0) =>
              err = Nil /\ node = varNode(Numeric, Remainder(left.num, right.num))
        /\ (operator = "<<" /\ right.num >= 0) =>
              err = Nil /\ node = varNode(Numeric, ShiftLeft(left.num, right.num))
        /\ (operator = ">>" /\ right.num >= 0) =>
              err = Nil /\ node = varNode(Numeric, ShiftRight(left.num, right.num))
        /\ operator = "&" =>
              err = Nil /\ node = varNode(Numeric, IntAnd(left.num, right.num))
        /\ operator = "&^" =>
              err = Nil /\ node = varNode(Numeric, IntAnd(left.num, -right.num - 1))

\* C14: boolean() of a Bool node is its value, of a Numeric node whether it
\* is not zero, of a String node whether it is not empty, of a Null node
\* false, and of an Array or Object node whether it has an element.
C14_Truthiness ==
    (Done /\ operator = "boolean") =>
        /\ err = Nil
        /\ node.type = Bool
        /\ node.bool =
              CASE left.type = Bool -> left.bool
                [] left.type = Numeric -> left.num # 0
                [] left.type = String -> left.str # ""
                [] left.type = Null -> FALSE
                [] left.type = Array \/ left.type = Object -> left.size > 0

\* boolean() has returned true for an array with elements
C14_Witness ==
    /\ Done
    /\ operator = "boolean"
    /\ left.type = Array /\ left.size = 2
    /\ node = varNode(Bool, TRUE)

\* n!, every digit of it
RECURSIVE Product(_)
Product(n) == IF n = 0 THEN <<1>> ELSE MulLimbs(Product(n - 1), n, 0)

\* C15: factorial returns the Numeric node of n! for a number n that is a
\* non-negative integer, after n nested calls of mathFactorial, and a type
\* error and no node for any other operand.
C15_Factorial ==
    (Done /\ operator = "factorial") =>
        IF left.type = Numeric /\ left.den = 1 /\ left.num >= 0
        THEN /\ err = Nil
             /\ node = wholeNode(float64(Product(left.num)))
             /\ nestedCalls(left.num) = left.num
        ELSE err = TypeMismatch /\ node = NilNode

\* C16: whenever rpn ends with an error the sequence it returns is nil,
\* whatever it had emitted, and nothing is scanned after the error: no step
\* is taken from a state with an error.
C16_NoPartialResult ==
    /\ [](err # Nil => (Done /\ result = <<>>))
    /\ [][err = Nil /\ (err' # Nil => (pc' = "done" /\ result' = <<>>))]_vars

\* rpn has failed on a ) without a ( after it had emitted two numbers
C16_Witness ==
    /\ Done
    /\ err = NoLeftParen
    /\ result = <<>>
    /\ Len(Words) = 3
    /\ Words[1] \in NumLits /\ Words[2] \in OpSymbols
    /\ index = Len(data) - 1

(***************************************************************************)
(* ParseJSONPath: the path is cut into commands, one per segment.  The     *)
(* root  $  or  @, a key after a dot, the text between [ and ], and the    *)
(* text between { and }, which is applied to the current node.  A bracket  *)
(* or brace inside a quoted string is text.                                *)
(***************************************************************************)
Command(value, apply) == [Value |-> value, ApplyInCurrentNode |-> apply]

\* the end of a key: the next dot, [ or {, or the end of the path
RECURSIVE keyEnd(_)
keyEnd(i) ==
    IF i < length /\ At(i) # dot /\ At(i) # bracketL /\ At(i) # bracesL
    THEN keyEnd(i + 1)
    ELSE i

\* closing() blind to the quotes: the first closing byte at depth 1 ends the
\* segment
RECURSIVE closingUnquoted(_, _, _, _, _)
closingUnquoted(i, open, close, depth, q) ==
    IF i >= length THEN Ret(i, ErrorEOF)
    ELSE LET c == At(i) IN
         IF c = open THEN closingUnquoted(i + 1, open, close, depth + 1, q)
         ELSE IF c = close
         THEN IF depth = 1 THEN Ret(i, Nil)
              ELSE closingUnquoted(i + 1, open, close, depth - 1, q)
         ELSE closingUnquoted(i + 1, open, close, depth, q)

\* the byte that closes the segment opened before i: depth counts the open
\* bytes not yet closed, q is the quote of the string the cursor is in
RECURSIVE closing(_, _, _, _, _)
closing(i, open, close, depth, q) ==
    IF i >= length THEN Ret(i, ErrorEOF)
    ELSE LET c == At(i) IN
         IF q # ""
         THEN closing(i + 1, open, close, depth,
                      IF c = q /\ ~isEscaped(i) THEN "" ELSE q)
         ELSE IF c = quote \/ c = quotes
         THEN closing(i + 1, open, close, depth, c)
         ELSE IF c = open THEN closing(i + 1, open, close, depth + 1, q)
         ELSE IF c = close
         THEN IF depth = 1 THEN Ret(i, Nil)
              ELSE closing(i + 1, open, close, depth - 1, q)
         ELSE closing(i + 1, open, close, depth, q)

\* the end of a turn of the loop of ParseJSONPath
PathNext(i) ==
    LET s == step(i) IN
    /\ index' = s.index
    /\ pc' = IF s.err = Nil THEN "path" ELSE "done"
    /\ err' = Nil
    /\ UNCHANGED <<data, stack, variable>>
    /\ UNCHANGED <<evalVars, previous>>

PathReading == pc = "path" /\ index < length

PathEnd ==
    /\ pc = "path"
    /\ index >= length
    /\ pc' = "done"
    /\ err' = Nil
    /\ UNCHANGED <<data, index, result, stack, variable>>
    /\ UNCHANGED <<evalVars, previous>>

PathRoot ==
    /\ PathReading
    /\ At(index) = dollar \/ At(index) = at
    /\ result' = Append(result, Command(<<At(index)>>, FALSE))
    /\ PathNext(index)

PathChild ==
    /\ PathReading
    /\ At(index) = dot
    /\ LET stop == keyEnd(index + 1) IN
       /\ result' = IF index + 1 < stop
                    THEN Append(result, Command(Slice(index + 1, stop), FALSE))
                    ELSE result
       /\ PathNext(stop - 1)

PathBracket ==
    /\ PathReading
    /\ At(index) = bracketL
    /\ LET e == closing(index + 1, bracketL, bracketR, 1, "") IN
       IF e.err # Nil
       THEN Fail(e.index, ErrorEOF)
       ELSE /\ result' = Append(result, Command(Slice(index + 1, e.index), FALSE))
            /\ PathNext(e.index)

PathBrace ==
    /\ PathReading
    /\ At(index) = bracesL
    /\ LET e == closing(index + 1, bracesL, bracesR, 1, "") IN
       IF e.err # Nil
       THEN Fail(e.index, ErrorEOF)
       ELSE /\ result' = Append(result, Command(Slice(index + 1, e.index), TRUE))
            /\ PathNext(e.index)

PathSymbol ==
    /\ PathReading
    /\ At(index) # dollar /\ At(index) # at /\ At(index) # dot
    /\ At(index) # bracketL /\ At(index) # bracesL
    /\ Fail(index, ErrorSymbol)

\* the segments of the paths parsed: the text and the command it stands for
MaxSegments == 3

Keys == { <<"a">>, <<"f", "o", "o">> }

Filters ==
    { <<"?", "(", "@", ".", "a", " ", "<", " ", "1", ")">>,
      <<"?", "(", "@", ".", "a", "[", "0", "]", " ", "=", "=", " ", "1", ")">>,
      <<"?", "(", "@", ".", "n", " ", "=", "=", " ", "\"", "{", " ", "o", "r", " ", "}", "\"", ")">>,
      <<"?", "(", "@", ".", "n", " ", "=", "=", " ", "'", "]", "}", "'", ")">>,
      <<"?", "(", "@", ".", "n", " ", "=", "=", " ", "\"", "a", "\\", "\"", "}", "\"", ")">> }

Segments ==
    { [text |-> <<dot>> \o k, command |-> Command(k, FALSE)] : k \in Keys } \cup
    { [text |-> <<bracketL>> \o f \o <<bracketR>>, command |-> Command(f, FALSE)] :
        f \in Filters \cup { <<"0">> } } \cup
    { [text |-> <<bracesL>> \o f \o <<bracesR>>, command |-> Command(f, TRUE)] :
        f \in Filters }

RECURSIVE PathText(_)
PathText(segs) ==
    IF segs = <<>> THEN <<>> ELSE segs[1].text \o PathText(Tail(segs))

Paths ==
    { <<root>> \o PathText(segs) :
        root \in {dollar, at},
        segs \in UNION { [1..n -> Segments] : n \in 0..MaxSegments } }

BrokenPaths ==
    { <<>>, <<"$", "}">>, <<"$", "[", "0">>, <<"$", "{", "?", "(", "@", ".", "n", " ", "=", "=", " ", "\"", "}", "\"", ")">>, <<"a", ".", "b">>, <<"$", ".">> }

InitPath ==
    /\ data \in Paths \cup BrokenPaths
    /\ NoEvaluation
    /\ previous = NoOutcome
    /\ index = 0
    /\ result = <<>>
    /\ stack = <<>>
    /\ variable = FALSE
    /\ err = Nil
    /\ pc = "path"

NextPath ==
    \/ PathEnd
    \/ PathRoot
    \/ PathChild
    \/ PathBracket
    \/ PathBrace
    \/ PathSymbol

SpecPath == InitPath /\ [][NextPath]_vars

\* C17: ParseJSONPath returns one command for each segment, in the order of
\* the path: the text of a {...} segment with the flag ApplyInCurrentNode
\* set, the text of a [...] segment and a key with the flag not set, and a
\* brace inside a quoted string of a filter does not end the segment.
C17_Commands ==
    (Done /\ data \notin BrokenPaths) =>
        /\ err = Nil
        /\ Len(result) >= 1
        /\ result[1] = Command(<<data[1]>>, FALSE)
        /\ \A i \in 2..Len(result) : result[i] \in { s.command : s \in Segments }
        /\ data = <<data[1]>> \o
                  PathText([i \in 1..(Len(result) - 1) |->
                              CHOOSE s \in Segments : s.command = result[i + 1]])

\* the path $.foo{?(@.n == "{ or }")} has been parsed
C17_Witness ==
    /\ Done
    /\ err = Nil
    /\ data = <<"$", ".", "f", "o", "o", "{", "?", "(", "@", ".", "n", " ", "=", "=", " ", "\"", "{", " ", "o", "r", " ", "}", "\"", ")", "}">>
    /\ result = << Command(<<dollar>>, FALSE),
                   Command(<<"f", "o", "o">>, FALSE),
                   Command(<<"?", "(", "@", ".", "n", " ", "=", "=", " ", "\"", "{", " ", "o", "r", " ", "}", "\"", ")">>, TRUE) >>

\* C18: the cursor never passes the end of the buffer, whatever was scanned
\* and whether it failed.
C18_CursorBound == index <= length

\* rpn is one goroutine that runs until it returns: a step that can be taken
\* is taken
SpecFair == Spec /\ WF_vars(Next)

\* C19: rpn returns on every formula: each turn of the main loop starts
\* with the cursor further than the turn before and inside the buffer, each
\* turn of the final loop takes one entry off the stack, and the call ends.
C19_Terminates ==
    /\ [][(pc = "loop" /\ pc' = "loop") => (index < index' /\ index' < length)]_vars
    /\ [][(pc = "drain" /\ pc' = "drain") => Len(stack') = Len(stack) - 1]_vars
    /\ <>Done

\* rpn has returned after five turns of the main loop and two of the final
\* loop
C19_Witness ==
    /\ Done
    /\ err = Nil
    /\ data = <<"1", " ", "+", " ", "2", " ", "*", " ", "3">>
    /\ index = length
    /\ stack = <<>>
    /\ Len(result) = 5

(***************************************************************************)
(* The same formula compiled twice: as written with one space between its  *)
(* tokens, then with the spaces taken out.                                 *)
(***************************************************************************)
SpaceOperands == NumLits \cup VarRefs

\* a op b, a space on either side of the operator
SpacedBinary ==
    { Join(<<a, o, b>>) : a \in SpaceOperands, b \in SpaceOperands, o \in OpSymbols }

\* formulas of the other tokens: parentheses, strings, constants, functions
SpacedOthers ==
    { <<"(", " ", "1", " ", "+", " ", "2", " ", ")">>,
      <<"'", "x", "'", " ", "=", "=", " ", "'", "x", "'">>,
      <<"p", "i", " ", "*", " ", "2">>,
      <<"(", " ", "*", " ", "1", " ", ")">>,
      <<"1", " ", "+", " ", "2", " ">>,
      <<" ">> }

NotSpace(c) == c # skipS

InitSpaces ==
    /\ data \in SpacedBinary \cup SpacedOthers
    /\ NoEvaluation
    /\ previous = NoOutcome
    /\ index = 0
    /\ result = <<>>
    /\ stack = <<>>
    /\ variable = FALSE
    /\ err = Nil
    /\ pc = "loop"

\* newBuffer() and rpn() on the formula without its spaces, once the call
\* on the formula with them has returned
Respace ==
    /\ pc = "done"
    /\ previous = NoOutcome
    /\ previous' = Outcome(result, err)
    /\ data' = SelectSeq(data, NotSpace)
    /\ index' = 0
    /\ result' = <<>>
    /\ stack' = <<>>
    /\ variable' = FALSE
    /\ err' = Nil
    /\ pc' = "loop"
    /\ UNCHANGED evalVars

NextSpaces ==
    \/ Next
    \/ Respace

SpecSpaces == InitSpaces /\ [][NextSpaces]_vars

\* aopb, no space
CompactBinary ==
    { a \o o \o b : a \in SpaceOperands, b \in SpaceOperands, o \in OpSymbols }

\* C20: a op b compiles to the same sequence, or fails with the same error,
\* with and without the spaces around the operator.
C20_Whitespace ==
    (Done /\ previous # NoOutcome /\ data \in CompactBinary) =>
        Outcome(result, err) = previous

(***************************************************************************)
(* The shape of the sequences rpn returns                                  *)
(***************************************************************************)
Underflow == 0 - 1

\* the depth after the tokens i.. of seq, from depth d: an operand or a
\* constant adds one, a function needs one and leaves it, an operation needs
\* two and leaves one; Underflow when a token finds less than it needs
RECURSIVE DepthFrom(_, _, _)
DepthFrom(seq, i, d) ==
    IF i > Len(seq) THEN d
    ELSE IF priority(seq[i]) # 0
    THEN IF d >= 2 THEN DepthFrom(seq, i + 1, d - 1) ELSE Underflow
    ELSE IF seq[i] \in functions
    THEN IF d >= 1 THEN DepthFrom(seq, i + 1, d) ELSE Underflow
    ELSE DepthFrom(seq, i + 1, d + 1)

Depth(seq) == DepthFrom(seq, 1, 0)

\* C21: a sequence rpn returns without error is arity-balanced postfix: its
\* depth count never underflows and ends at exactly one; the empty formula
\* and a formula that ends in a binary operator do not compile.
C21_ArityBalanced ==
    (Done /\ err = Nil) => Depth(result) = 1

(***************************************************************************)
(* The tokens of a formula against the tokens of the sequence returned     *)
(***************************************************************************)
IsParenthesis(t) == t = <<parenthesesL>> \/ t = <<parenthesesR>>

\* an entry that came from the stack: an operation or a function
IsOperatorToken(t) == ~IsOperandLexeme(t) /\ ~IsParenthesis(t)

OperandsOf(seq) == SelectSeq(seq, IsOperandLexeme)

OperatorsOf(seq) == SelectSeq(seq, IsOperatorToken)

\* a name as rpn emits it: strings.ToLower of the bytes read
Emitted(t) == IF ToLower(t) \in constants \cup functions THEN ToLower(t) ELSE t

Flush(word, out) == IF word = <<>> THEN out ELSE Append(out, Emitted(word))

\* the tokens of a formula whose operands hold no space and no parenthesis:
\* it is cut at the spaces, and a parenthesis is a token of its own
RECURSIVE LexFrom(_, _, _, _)
LexFrom(s, i, word, out) ==
    IF i > Len(s) THEN Flush(word, out)
    ELSE IF s[i] = skipS THEN LexFrom(s, i + 1, <<>>, Flush(word, out))
    ELSE IF s[i] = parenthesesL \/ s[i] = parenthesesR
    THEN LexFrom(s, i + 1, <<>>, Append(Flush(word, out), <<s[i]>>))
    ELSE LexFrom(s, i + 1, Append(word, s[i]), out)

Lexemes == LexFrom(data, 1, <<>>, <<>>)

\* the formulas LexFrom cuts into their tokens
Plain == TokenStrings \cup Infix \cup Grouped \cup Calls

\* the lexeme t is in the formula text at byte p
OccursAt(t, p) ==
    /\ p + Len(t) - 1 <= Len(data)
    /\ Emitted(SubSeq(data, p, p + Len(t) - 1)) = t

\* the lexemes k.. of ops are in the formula text from byte p on, one after
\* the other
RECURSIVE InOrderFrom(_, _, _)
InOrderFrom(ops, k, p) ==
    IF k > Len(ops) THEN TRUE
    ELSE \E q \in p..Len(data) :
            /\ OccursAt(ops[k], q)
            /\ InOrderFrom(ops, k + 1, q + Len(ops[k]))

\* C22: in a sequence rpn returns without error the operand lexemes are
\* those of the formula text, once each and in its order, as many operators
\* and functions are emitted as the formula holds, and no ( or ) is emitted.
C22_Conservation ==
    (Done /\ err = Nil) =>
        /\ \A i \in 1..Len(result) : ~IsParenthesis(result[i])
        /\ InOrderFrom(OperandsOf(result), 1, 1)
        /\ data \in Plain =>
              /\ OperandsOf(result) = OperandsOf(Lexemes)
              /\ Len(OperatorsOf(result)) = Len(OperatorsOf(Lexemes))

====
